---- MODULE Spec2Model ----
(***************************************************************************)
(* Model of the LLMRetrieval pipeline: relevance feedback (reranking),     *)
(* query reformulation (term reweighting and query expansion) of           *)
(* AugmentedSolr, and result aggregation of main.py.                       *)
(*                                                                         *)
(* Strings are sequences of one-character strings, so that Python's        *)
(* substring test, index, slicing and concatenation are computed and not   *)
(* assumed.  Python sets are iterated in an unspecified order: every       *)
(* iteration over a set is a choice among all orders of its elements.      *)
(***************************************************************************)
EXTENDS Integers, Sequences, FiniteSets, TLC

VARIABLES
    phase,              \* which operation has run: "init", then the operation's name
    \* --- AugmentedSolr.relevance_feedback ---
    query_result,       \* the QueryResult given to relevance_feedback (docnos by rank)
    feedback_on_top_n,  \* the feedback window
    judgment,           \* the oracle: Model.judge_relevance per document
    relevant,           \* Doc.relevant of every document ("unjudged" is -inf)
    reranked,           \* the QueryResult returned by the first pass
    reranked_again,     \* the QueryResult returned by a pass over `reranked`
    cg,                 \* QueryResult.cg as last read
    \* --- AugmentedSolr.reweight_query_terms / expand_query ---
    query,              \* the Query given: [query_id, query_text]
    rel_keywords,       \* the set of keywords from relevant documents
    non_rel_words,      \* the set of words from non-relevant documents
    new_query,          \* the Query returned, "none" before the call
    \* --- AugmentedSolr.reformulate_query ---
    original_result,    \* the QueryResult of the first retrieval (docnos by rank)
    expand,             \* the expand_query flag
    term_reweighting,   \* the term_reweighting flag
    pseudo_rel_docs,    \* the top N documents taken as pseudo-relevant
    pseudo_non_rel_docs,\* the bottom N documents taken as pseudo-non-relevant
    oracle,             \* Model.keywords_by_document: the keyword set per document
    raised,             \* the exception reformulate_query ended in, or "none"
    oracle_calls,       \* the calls of keywords_by_document made
    \* --- main.aggregate_results ---
    original,           \* original_result: [query_id, docs], a doc is [docno, score]
    augmented,          \* augmented_result: [query_id, docs]
    ground_truth,       \* the docnos data/groundTruth.txt judges relevant to the query
    aggregated,         \* the QueryResult returned, "none" before the call
    max_score,          \* max_score when the loops have ended
    best_docs,          \* best_docs when the loops have ended
    attempts,           \* the substitutions tried: [i, j, accepted], 0-based
    \* --- main.main: the batch over the queries ---
    main_pc,            \* the statement main is at
    queries,            \* the number of queries of the batch
    solr_ok,            \* per query: Solr answers solr.query with status 200
    augmented_ok,       \* per query: augmented_solr.query ends without an exception
    results,            \* the queries that have an entry in results
    augmented_results,  \* the queries that have an entry in augmented_results
    agg_results,        \* the queries that have an entry in agg_results
    reported,           \* the queries whose evaluation has been printed
    \* --- OpenAIModel.generate ---
    gen_pc,             \* "idle", "request", "sleep", "returned", "raised"
    gen_budget,         \* the retries argument of the outermost call
    gen_retries,        \* the retries argument of the current call
    api_outcomes,       \* what the n-th request to the API ends in: "ok" or an error
    api_requests,       \* the requests made to the API
    slept,              \* the seconds spent in time.sleep
    gen_result,         \* the response returned or the error raised, NoResult before
    \* --- Model.keywords_by_document and the oracle calls of a reformulation ---
    responses,          \* per call of keywords_by_document: the texts generate returns
    kbd_retries,        \* the retries argument of keywords_by_document
    kbd_out,            \* the outcome of keywords_by_document, NoKeywordSet before
    generations,        \* the calls of Model.generate made by a reformulation
    requested           \* the documents sent to the oracle, one per call of generate

rerankVars == <<query_result, feedback_on_top_n, judgment, relevant,
                reranked, reranked_again, cg>>
keywordVars == <<query, rel_keywords, non_rel_words, new_query>>

reformVars == <<original_result, expand, term_reweighting, pseudo_rel_docs,
                pseudo_non_rel_docs, oracle, raised, oracle_calls>>

aggregateVars == <<original, augmented, ground_truth, aggregated, max_score,
                   best_docs, attempts>>

mainVars == <<main_pc, queries, solr_ok, augmented_ok, results,
              augmented_results, agg_results, reported>>

generateVars == <<gen_pc, gen_budget, gen_retries, api_outcomes, api_requests,
                  slept, gen_result>>

extractVars == <<responses, kbd_retries, kbd_out, generations, requested>>

oracleVars == <<mainVars, generateVars, extractVars>>

vars == <<phase, rerankVars, keywordVars, reformVars, aggregateVars, oracleVars>>

-----------------------------------------------------------------------------
(* Bounds                                                                  *)

MaxDocs == 3          \* longest result set given to relevance_feedback
MaxWindow == 4        \* largest feedback window (larger than MaxDocs)
MaxKeywords == 2      \* largest keyword set given to reweight_query_terms and expand_query
MaxResult == 2        \* longest result set given to reformulate_query
GenerateRetries == 4  \* OpenAIModel.generate: retries=4
KbdRetries == 3       \* keywords_by_document: retries=3
RetryDelay == 10      \* OpenAIModel.generate: time.sleep(10)
MaxQueries == 3       \* most queries in a batch of main
MaxAggLen == 3        \* longest result set given to aggregate_results

\* pseudo_rel_docs (default 2) and pseudo_non_rel_docs (default 3) as called
PseudoRelChoices == {1, 2}
PseudoNonRelChoices == {1, 3}

DocNos == {"d1", "d2", "d3", "d4"}

-----------------------------------------------------------------------------
(* Python list helpers                                                     *)

Min(a, b) == IF a < b THEN a ELSE b

\* s[:n] for n >= 0
Take(s, n) == SubSeq(s, 1, Min(n, Len(s)))

\* s[n:] for n >= 0
Drop(s, n) == SubSeq(s, Min(n, Len(s)) + 1, Len(s))

Range(s) == {s[i] : i \in DOMAIN s}

\* Python floats as far as they occur: -inf and the integers
NegInf == [neg_inf |-> TRUE, value |-> 0]
Num(n) == [neg_inf |-> FALSE, value |-> n]

\* the sequences over S of length 1..n without repetition
DistinctSeqs(S, n) ==
    {s \in UNION {[1..k -> S] : k \in 1..n} :
        \A i, j \in DOMAIN s : i # j => s[i] # s[j]}

-----------------------------------------------------------------------------
(* Python strings: sequences of one-character strings                      *)

Space == <<" ">>

\* the query texts and keywords the model draws from
CatDog == <<"c", "a", "t", " ", "d", "o", "g">>
DogCatDog == <<"d", "o", "g", " ", "c", "a", "t", " ", "d", "o", "g">>
Bank == <<"b", "a", "n", "k">>
BankRate == <<"b", "a", "n", "k", " ", "r", "a", "t", "e">>
Dog == <<"d", "o", "g">>
Cat == <<"c", "a", "t">>
Rate == <<"r", "a", "t", "e">>
Empty == <<>>

QueryTexts == {CatDog, DogCatDog, Bank, BankRate}
Keywords == {Dog, Cat, Rate, Bank, Empty}

\* p in s
IsSubstr(p, s) ==
    \E i \in 0..(Len(s) - Len(p)) : SubSeq(s, i + 1, i + Len(p)) = p

\* s.index(p): the 0-based position of the first occurrence of p in s
Index(s, p) ==
    CHOOSE i \in 0..(Len(s) - Len(p)) :
        /\ SubSeq(s, i + 1, i + Len(p)) = p
        /\ \A j \in 0..(i - 1) : SubSeq(s, j + 1, j + Len(p)) # p

\* sep.join(parts)
RECURSIVE Join(_, _)
Join(parts, sep) ==
    IF Len(parts) = 0 THEN <<>>
    ELSE IF Len(parts) = 1 THEN parts[1]
    ELSE parts[1] \o sep \o Join(Tail(parts), sep)

\* s.split(" "): the pieces of s between single spaces, empty pieces included
RECURSIVE split(_)
split(s) ==
    IF ~IsSubstr(Space, s) THEN <<s>>
    ELSE LET i == Index(s, Space)
         IN  <<Take(s, i)>> \o split(Drop(s, i + 1))

\* s.count(p)
Count(p, s) ==
    Cardinality({i \in 0..(Len(s) - Len(p)) : SubSeq(s, i + 1, i + Len(p)) = p})

\* every order in which a Python set can be iterated
Orders(S) ==
    {o \in [1..Cardinality(S) -> S] : \A i, j \in DOMAIN o : i # j => o[i] # o[j]}

-----------------------------------------------------------------------------
(* AugmentedSolr.reweight_query_terms and AugmentedSolr.expand_query       *)

\* f"^{factor}" for boost_factor=2 and depress_factor=0.5
BoostSuffix == <<"^", "2">>
DepressSuffix == <<"^", "0", ".", "5">>

\* one iteration of the loop of reweight for keyword kw
reweight_step(q_text, new_query_text, kw, suffix) ==
    IF /\ IsSubstr(kw \o Space, q_text)
       /\ Len(kw) > 0
       /\ IsSubstr(kw \o Space, new_query_text \o Space)
    THEN LET splice == Index(new_query_text \o Space, kw \o Space) + Len(kw)
         IN  Take(new_query_text, splice) \o suffix \o Drop(new_query_text, splice)
    ELSE new_query_text

\* the loop of reweight over the keywords in iteration order `order`
RECURSIVE reweight_loop(_, _, _, _)
reweight_loop(q_text, new_query_text, order, suffix) ==
    IF Len(order) = 0 THEN new_query_text
    ELSE reweight_loop(q_text,
                       reweight_step(q_text, new_query_text, Head(order), suffix),
                       Tail(order), suffix)

\* reweight(q_text, kw_set, factor): every text an iteration order can give.
\* A keyword that fails the part of the loop's test that reads only q_text
\* leaves new_query as it is wherever it comes in the order, so only the
\* others are ordered.
reweight(q_text, kw_set, suffix) ==
    {reweight_loop(q_text, q_text, order, suffix) :
        order \in Orders({kw \in kw_set :
                             IsSubstr(kw \o Space, q_text) /\ Len(kw) > 0})}

\* the texts reweight_query_terms can return
reweight_query_terms(q_text, rel, non_rel) ==
    UNION {reweight(boosted, non_rel, DepressSuffix) :
              boosted \in reweight(q_text, rel, BoostSuffix)}

\* mutant: the keywords already in the query text are not filtered out
expand_query_unfiltered(q_text, rel) ==
    {q_text \o Join(order, Space) : order \in Orders(rel)}

\* the texts expand_query can return
expand_query(q_text, rel) ==
    {q_text \o Join(order, Space) :
        order \in Orders({kw \in rel : ~IsSubstr(kw, q_text)})}

NoRerank ==
    /\ query_result = <<>>
    /\ feedback_on_top_n = 0
    /\ judgment = [d \in DocNos |-> FALSE]
    /\ relevant = [d \in DocNos |-> "unjudged"]
    /\ reranked = <<>>
    /\ reranked_again = <<>>
    /\ cg = Num(0)

NoKeywords ==
    /\ query = [query_id |-> "0", query_text |-> <<>>]
    /\ rel_keywords = {}
    /\ non_rel_words = {}
    /\ new_query = "none"

NoReformulation ==
    /\ original_result = <<>>
    /\ expand = FALSE
    /\ term_reweighting = FALSE
    /\ pseudo_rel_docs = 0
    /\ pseudo_non_rel_docs = 0
    /\ oracle = [d \in DocNos |-> {}]
    /\ raised = "none"
    /\ oracle_calls = 0

NoAggregation ==
    /\ original = "none"
    /\ augmented = "none"
    /\ ground_truth = {}
    /\ aggregated = "none"
    /\ max_score = 0
    /\ best_docs = <<>>
    /\ attempts = <<>>

NoMain ==
    /\ main_pc = "idle"
    /\ queries = 0
    /\ solr_ok = <<>>
    /\ augmented_ok = <<>>
    /\ results = {}
    /\ augmented_results = {}
    /\ agg_results = {}
    /\ reported = {}

\* what a call ends in: its kind ("response" or the error's name) and the
\* request to the API it comes from
Outcome(kind, attempt) == [kind |-> kind, attempt |-> attempt]
NoResult == Outcome("none", 0)

NoGenerate ==
    /\ gen_pc = "idle"
    /\ gen_budget = 0
    /\ gen_retries = 0
    /\ api_outcomes = <<>>
    /\ api_requests = 0
    /\ slept = 0
    /\ gen_result = NoResult

\* what keywords_by_document ends in: the exception raised ("none" when it
\* returns) and the set returned
KeywordSet(exception, keywords) == [raised |-> exception, keywords |-> keywords]
NoKeywordSet == KeywordSet("none", {})

NoExtraction ==
    /\ responses = <<>>
    /\ kbd_retries = 0
    /\ kbd_out = NoKeywordSet
    /\ generations = 0
    /\ requested = <<>>

NoOracle == NoMain /\ NoGenerate /\ NoExtraction

\* the subsets of S with at most n elements
SubsetsUpTo(S, n) == {T \in SUBSET S : Cardinality(T) <= n}

InitKeywords ==
    /\ phase = "init"
    /\ NoRerank
    /\ query \in [query_id : {"1"}, query_text : QueryTexts]
    /\ rel_keywords \in SubsetsUpTo(Keywords, MaxKeywords)
    /\ non_rel_words \in SubsetsUpTo(Keywords, MaxKeywords)
    /\ new_query = "none"
    /\ NoReformulation
    /\ NoAggregation
    /\ NoOracle

ReweightQueryTerms ==
    /\ phase = "init"
    /\ phase' = "reweighted"
    /\ \E text \in reweight_query_terms(query.query_text, rel_keywords, non_rel_words) :
          new_query' = [query_id |-> query.query_id, query_text |-> text]
    /\ UNCHANGED <<query, rel_keywords, non_rel_words>>
    /\ UNCHANGED <<rerankVars, reformVars, aggregateVars, oracleVars>>

ExpandQuery ==
    /\ phase = "init"
    /\ phase' = "expanded"
    /\ \E text \in expand_query(query.query_text, rel_keywords) :
          new_query' = [query_id |-> query.query_id, query_text |-> text]
    /\ UNCHANGED <<query, rel_keywords, non_rel_words>>
    /\ UNCHANGED <<rerankVars, reformVars, aggregateVars, oracleVars>>

NextKeywords == ReweightQueryTerms \/ ExpandQuery

SpecKeywords == InitKeywords /\ [][NextKeywords]_vars

-----------------------------------------------------------------------------
(* utils.strip_stopwords                                                   *)

\* a few of the NLTK English stopwords
stop_words == {<<"i", "n">>, <<"t", "h", "e">>, <<"o", "f">>}

\* the stopword w for which " w " starts at position i of text (1-based)
StopwordsAt(text, i) ==
    {w \in stop_words :
        /\ i + Len(w) + 1 <= Len(text)
        /\ SubSeq(text, i, i + Len(w) + 1) = Space \o w \o Space}

\* re.sub(" w1 | w2 | ... ", " ", text): leftmost matches, not overlapping
RECURSIVE SubStopwords(_, _)
SubStopwords(text, i) ==
    IF i > Len(text) THEN <<>>
    ELSE IF StopwordsAt(text, i) # {}
         THEN LET w == CHOOSE w \in StopwordsAt(text, i) : TRUE
              IN  Space \o SubStopwords(text, i + Len(w) + 2)
         ELSE <<text[i]>> \o SubStopwords(text, i + 1)

\* .replace("\n", " ").lower(), character by character
LowerChar(c) ==
    CASE c = "\n" -> " "
      [] c = "B" -> "b"
      [] c = "D" -> "d"
      [] OTHER -> c

strip_stopwords(text) ==
    LET stripped == SubStopwords(text, 1)
    IN  [i \in 1..Len(stripped) |-> LowerChar(stripped[i])]

-----------------------------------------------------------------------------
(* AugmentedSolr.reformulate_query                                         *)

\* Doc.doctext of every document
doctext ==
    [d \in DocNos |->
        CASE d = "d1" -> <<"n", "o", "r", "w", "e", "g", "i", "a", "n", " ", "b", "a", "n", "k", "s", " ", "r", "a", "i", "s", "e", "d", " ", "r", "a", "t", "e", "s">>
          [] d = "d2" -> <<"g", "o", "a", "t", "s", " ", "i", "n", " ", "k", "a", "n", "s", "a", "s">>
          [] d = "d3" -> <<"D", "o", "g", " ", "i", "n", "\n", "t", "h", "e", " ", "b", "a", "n", "k">>
          [] d = "d4" -> <<"r", "a", "t", "e", " ", "o", "f", " ", "t", "h", "e", " ", "c", "a", "t">>]

\* the keyword sets keywords_by_document returns for a document
KeywordResponses == {{Rate}, {Rate, Dog}}

\* s[-n:] for n >= 1
LastN(s, n) == Drop(s, Len(s) - Min(n, Len(s)))

\* the words of the pseudo-non-relevant documents
gather_non_rel_words(result, reweight_flag, n_non_rel) ==
    IF reweight_flag
    THEN UNION {Range(split(strip_stopwords(doctext[d]))) :
                  d \in Range(LastN(result, n_non_rel))}
    ELSE {}

\* the keywords of the pseudo-relevant documents that are no non-relevant word
gather_rel_keywords(result, n_rel, keywords_by_document, non_rel) ==
    UNION { {strip_stopwords(kw) : kw \in keywords_by_document[d]} \ non_rel :
              d \in Range(Take(result, n_rel))}

\* the texts the reformulation of q_text can end with
reformulated_texts(q_text, rel, non_rel, expand_flag, reweight_flag) ==
    LET reweighted == IF reweight_flag
                      THEN reweight_query_terms(q_text, rel, non_rel)
                      ELSE {q_text}
    IN  IF expand_flag
        THEN UNION {expand_query(t, rel) : t \in reweighted}
        ELSE reweighted

\* what reformulate_query does from the gathering of keywords on
reformulate_query_body(q, result, expand_flag, reweight_flag, n_rel, n_non_rel, keywords_by_document) ==
    LET non_rel == gather_non_rel_words(result, reweight_flag, n_non_rel)
        rel == gather_rel_keywords(result, n_rel, keywords_by_document, non_rel)
    IN  {[raised |-> "none",
          query |-> [query_id |-> q.query_id, query_text |-> t],
          oracle_calls |-> Len(Take(result, n_rel))] :
            t \in reformulated_texts(q.query_text, rel, non_rel,
                                     expand_flag, reweight_flag)}

\* mutant: the check of the flags is missing
reformulate_query_unguarded(q, result, expand_flag, reweight_flag, n_rel, n_non_rel, keywords_by_document) ==
    reformulate_query_body(q, result, expand_flag, reweight_flag, n_rel,
                           n_non_rel, keywords_by_document)

\* the outcomes of reformulate_query: the exception raised or the Query
\* returned, and the calls of keywords_by_document made on the way
reformulate_query(q, result, expand_flag, reweight_flag, n_rel, n_non_rel, keywords_by_document) ==
    IF ~expand_flag /\ ~reweight_flag
    THEN {[raised |-> "ValueError", query |-> "none", oracle_calls |-> 0]}
    ELSE reformulate_query_body(q, result, expand_flag, reweight_flag, n_rel,
                                n_non_rel, keywords_by_document)

InitReformulate ==
    /\ phase = "init"
    /\ NoRerank
    /\ query \in [query_id : {"1"}, query_text : QueryTexts]
    /\ rel_keywords = {}
    /\ non_rel_words = {}
    /\ new_query = "none"
    /\ original_result \in DistinctSeqs(DocNos, MaxResult)
    /\ expand \in BOOLEAN
    /\ term_reweighting \in BOOLEAN
    /\ pseudo_rel_docs \in PseudoRelChoices
    /\ pseudo_non_rel_docs \in PseudoNonRelChoices
    /\ oracle \in [DocNos -> KeywordResponses]
    /\ raised = "none"
    /\ oracle_calls = 0
    /\ NoAggregation
    /\ NoOracle

ReformulateQuery ==
    /\ phase = "init"
    /\ phase' = "reformulated"
    /\ \E out \in reformulate_query(query, original_result, expand, term_reweighting,
                                     pseudo_rel_docs, pseudo_non_rel_docs, oracle) :
          /\ raised' = out.raised
          /\ new_query' = out.query
          /\ oracle_calls' = out.oracle_calls
    /\ UNCHANGED <<query, rel_keywords, non_rel_words>>
    /\ UNCHANGED <<original_result, expand, term_reweighting, pseudo_rel_docs,
                   pseudo_non_rel_docs, oracle>>
    /\ UNCHANGED <<rerankVars, aggregateVars, oracleVars>>

NextReformulate == ReformulateQuery

SpecReformulate == InitReformulate /\ [][NextReformulate]_vars

-----------------------------------------------------------------------------
(* Claims about reformulate_query, checked under SpecReformulate           *)

\* C4: with expand_query and term_reweighting both false, reformulate_query
\* ends in the configuration error, for every query and result set, having
\* made no oracle call and returned no query.
C4_ConfigurationError ==
    (phase = "reformulated" /\ ~expand /\ ~term_reweighting) =>
        /\ raised = "ValueError"
        /\ oracle_calls = 0
        /\ new_query = "none"

C4_Witness ==
    /\ phase = "reformulated"
    /\ ~expand
    /\ ~term_reweighting
    /\ Len(original_result) = MaxResult
    /\ raised = "ValueError"

\* C7: query id "1" with text "bank", the result [d1, d2], one
\* pseudo-relevant and one pseudo-non-relevant document, the oracle
\* extracting {"rate"} from d1: the reformulated query has the same id and
\* the text "bank rate".
C7_ExpansionSpaceJoined ==
    (/\ phase = "reformulated"
     /\ expand
     /\ query = [query_id |-> "1", query_text |-> Bank]
     /\ original_result = <<"d1", "d2">>
     /\ pseudo_rel_docs = 1
     /\ pseudo_non_rel_docs = 1
     /\ oracle["d1"] = {Rate})
        => new_query = [query_id |-> "1", query_text |-> BankRate]

-----------------------------------------------------------------------------
(* main.aggregate_results                                                  *)

\* the documents and retrieval scores the aggregated result sets draw from
AggDocNos == {"d1", "d2", "d3"}
Scores == {1, 2}
Docs == [docno : AggDocNos, score : Scores]

\* document lists without a repeated docno, as a Solr response holds them
DocLists(n) ==
    {s \in UNION {[1..k -> Docs] : k \in 1..n} :
        \A i, j \in DOMAIN s : i # j => s[i].docno # s[j].docno}

\* "sort": "score desc" of Solr.query
SortedByScore(s) == \A i, j \in DOMAIN s : i < j => s[i].score >= s[j].score

RECURSIVE Factorial(_)
Factorial(n) == IF n <= 1 THEN 1 ELSE n * Factorial(n - 1)

\* the documents of the first k ranks that the ground truth judges relevant
Hits(docs, gt, k) == Cardinality({i \in 1..k : docs[i].docno \in gt})

RECURSIVE SumPrecision(_, _, _)
SumPrecision(docs, gt, k) ==
    IF k = 0 THEN 0
    ELSE SumPrecision(docs, gt, k - 1)
         + (IF docs[k].docno \in gt
            THEN Hits(docs, gt, k) * (Factorial(Len(docs)) \div k)
            ELSE 0)

\* TrecEval.evaluate(...)["map"]["all"] of one result set in the order the
\* ranks are written by format_query_results: the sum of the precisions at
\* the ranks of the relevant documents, as an integer (times len(docs)!);
\* the division by the number of relevant documents is the same for every
\* result set of a query and is left out
map_all(docs, gt) == SumPrecision(docs, gt, Len(docs))

\* [*best_docs[:j], augmented_result[i], *best_docs[j+1:]] (i, j 0-based)
substitute(best, aug, i, j) ==
    Take(best, j) \o <<aug[i + 1]>> \o Drop(best, j + 1)

\* mutant: the inner loop runs to the last position, range(i, len(original_result))
inner_stop_at_length(n) == n

\* the stop of the inner loop: range(i, len(original_result)-1)
inner_stop(n) == n - 1

\* the two loops of the ground truth branch from (i, j) on; st holds
\* aggregated_docs, max_score and best_docs, and the substitutions tried
RECURSIVE substitution_loops(_, _, _, _, _, _)
substitution_loops(n, aug, gt, i, j, st) ==
    IF i >= n THEN st
    ELSE IF j >= inner_stop(n) THEN substitution_loops(n, aug, gt, i + 1, i + 1, st)
    ELSE IF i + 1 > Len(aug) THEN [st EXCEPT !.raised = "IndexError"]
    ELSE LET docs == substitute(st.best_docs, aug, i, j)
             new_score == map_all(docs, gt)
             tried == [i |-> i, j |-> j, accepted |-> new_score > st.max_score]
         IN  IF new_score > st.max_score
             THEN substitution_loops(n, aug, gt, i + 1, i + 1,
                      [st EXCEPT !.aggregated_docs = docs,
                                 !.max_score = new_score,
                                 !.best_docs = docs,
                                 !.attempts = Append(@, tried)])
             ELSE substitution_loops(n, aug, gt, i, j + 1,
                      [st EXCEPT !.aggregated_docs = docs,
                                 !.attempts = Append(@, tried)])

\* aggregate_results(original_result, augmented_result, use_ground_truth=True)
aggregate_ground_truth(orig, aug, gt) ==
    LET st == substitution_loops(Len(orig.docs), aug.docs, gt, 0, 0,
                  [aggregated_docs |-> orig.docs,
                   max_score |-> map_all(orig.docs, gt),
                   best_docs |-> orig.docs,
                   attempts |-> <<>>,
                   raised |-> "none"])
    IN  [raised |-> st.raised,
         result |-> IF st.raised = "none"
                    THEN [query_id |-> orig.query_id, docs |-> st.aggregated_docs]
                    ELSE "none",
         max_score |-> st.max_score,
         best_docs |-> st.best_docs,
         attempts |-> st.attempts]

\* mutant: documents are equal when docno and score are, not the docno alone
union_docs_by_value(orig_docs, aug_docs) == Range(orig_docs \o aug_docs)

\* set(original_result.docs + augmented_result.docs): Doc.__eq__ and
\* Doc.__hash__ read the docno only, and a set keeps the element it holds
\* when an equal one is added
union_docs(orig_docs, aug_docs) ==
    LET all == orig_docs \o aug_docs
    IN  {all[i] : i \in {k \in DOMAIN all :
                            \A h \in 1..(k - 1) : all[h].docno # all[k].docno}}

Max(S) == CHOOSE x \in S : \A y \in S : y <= x

\* sorted(list(S), key=score, reverse=True): the sort is stable and the
\* order of list(S) is unspecified, so documents of equal score come in any order
RECURSIVE sorted_by_score(_)
sorted_by_score(S) ==
    IF S = {} THEN {<<>>}
    ELSE LET top == {d \in S : d.score = Max({x.score : x \in S})}
         IN  UNION {{<<d>> \o rest : rest \in sorted_by_score(S \ {d})} : d \in top}

\* mutant: the result is not cut to the length of the original result
aggregate_score_union_uncut(orig, aug) ==
    {[query_id |-> orig.query_id, docs |-> docs] :
        docs \in sorted_by_score(union_docs(orig.docs, aug.docs))}

\* aggregate_results(original_result, augmented_result, use_ground_truth=False)
aggregate_score_union(orig, aug) ==
    {[query_id |-> orig.query_id, docs |-> Take(docs, Len(orig.docs))] :
        docs \in sorted_by_score(union_docs(orig.docs, aug.docs))}

InitAggregate ==
    /\ phase = "init"
    /\ NoRerank
    /\ NoKeywords
    /\ NoReformulation
    /\ original \in [query_id : {"1"},
                     docs : {s \in DocLists(MaxAggLen) : SortedByScore(s)}]
    /\ augmented \in [query_id : {"1", "2"}, docs : DocLists(MaxAggLen)]
    /\ ground_truth \in SUBSET AggDocNos \ {{}}
    /\ aggregated = "none"
    /\ max_score = 0
    /\ best_docs = <<>>
    /\ attempts = <<>>
    /\ NoOracle

AggregateGroundTruth ==
    /\ phase = "init"
    /\ phase' = "aggregated_ground_truth"
    /\ LET out == aggregate_ground_truth(original, augmented, ground_truth)
       IN  /\ raised' = out.raised
           /\ aggregated' = out.result
           /\ max_score' = out.max_score
           /\ best_docs' = out.best_docs
           /\ attempts' = out.attempts
    /\ UNCHANGED <<original, augmented, ground_truth>>
    /\ UNCHANGED <<original_result, expand, term_reweighting, pseudo_rel_docs,
                   pseudo_non_rel_docs, oracle, oracle_calls>>
    /\ UNCHANGED <<rerankVars, keywordVars, oracleVars>>

AggregateScoreUnion ==
    /\ phase = "init"
    /\ phase' = "aggregated_score_union"
    /\ aggregated' \in aggregate_score_union(original, augmented)
    /\ UNCHANGED <<original, augmented, ground_truth, max_score, best_docs>>
    /\ UNCHANGED <<rerankVars, keywordVars, reformVars, oracleVars, attempts>>

NextAggregate == AggregateGroundTruth \/ AggregateScoreUnion

SpecAggregate == InitAggregate /\ [][NextAggregate]_vars

-----------------------------------------------------------------------------
(* Claims about aggregate_results, checked under SpecAggregate             *)

\* C8: for result sets A and B of the same length, score-union aggregation
\* returns exactly len(A) documents under A's query id.
C8_UnionLengthPreserving ==
    (/\ phase = "aggregated_score_union"
     /\ Len(original.docs) = Len(augmented.docs))
        => /\ Len(aggregated.docs) = Len(original.docs)
           /\ aggregated.query_id = original.query_id

C8_Witness ==
    /\ phase = "aggregated_score_union"
    /\ Len(original.docs) >= 2
    /\ Len(augmented.docs) >= 2
    /\ augmented.query_id # original.query_id
    /\ \E i \in DOMAIN aggregated.docs : aggregated.docs[i] \notin Range(original.docs)
    /\ \E i \in DOMAIN original.docs, j \in DOMAIN augmented.docs :
          original.docs[i].docno = augmented.docs[j].docno

\* C9: the output of score-union aggregation is sorted by score in
\* non-increasing order and holds no two documents of the same docno, also
\* when a docno is in both result sets with different scores.
C9_UnionSortedNoDuplicates ==
    phase = "aggregated_score_union" =>
        /\ \A i, j \in DOMAIN aggregated.docs :
              i < j => aggregated.docs[i].score >= aggregated.docs[j].score
        /\ \A i, j \in DOMAIN aggregated.docs :
              i # j => aggregated.docs[i].docno # aggregated.docs[j].docno

C9_Witness ==
    /\ phase = "aggregated_score_union"
    /\ Len(aggregated.docs) >= 2
    /\ \E i \in DOMAIN original.docs, j \in DOMAIN augmented.docs :
          /\ original.docs[i].docno = augmented.docs[j].docno
          /\ original.docs[i].score < augmented.docs[j].score
          /\ \E k \in DOMAIN aggregated.docs :
                aggregated.docs[k].docno = original.docs[i].docno

\* the docnos of a document list: documents are compared by docno
DocNosOf(docs) == [i \in DOMAIN docs |-> docs[i].docno]

AttemptsWith(i) == SelectSeq(attempts, LAMBDA a : a.i = i)

C10_ReturnsBest ==
    (phase = "aggregated_ground_truth" /\ raised = "none") =>
        /\ DocNosOf(aggregated.docs) = DocNosOf(best_docs)
        /\ map_all(aggregated.docs, ground_truth) = max_score
        /\ map_all(aggregated.docs, ground_truth)
              >= map_all(original.docs, ground_truth)

-----------------------------------------------------------------------------
(* main.main: the batch over the queries                                   *)

\* The sets results, augmented_results and agg_results record the queries
\* whose call has returned.  An exception in a dict comprehension leaves
\* main: nothing catches it, so the process ends with the traceback.

InitMain ==
    /\ phase = "init"
    /\ NoRerank
    /\ NoKeywords
    /\ NoReformulation
    /\ NoAggregation
    /\ NoGenerate
    /\ NoExtraction
    /\ main_pc = "results"
    /\ queries \in 1..MaxQueries
    /\ solr_ok \in [1..queries -> BOOLEAN]
    /\ augmented_ok \in [1..queries -> BOOLEAN]
    /\ results = {}
    /\ augmented_results = {}
    /\ agg_results = {}
    /\ reported = {}

\* the query the comprehension over `done` is at
NextQuery(done) == Cardinality(done) + 1

\* line 80, one query: solr.query returns the QueryResult
QuerySolr ==
    /\ main_pc = "results"
    /\ solr_ok[NextQuery(results)]
    /\ results' = results \cup {NextQuery(results)}
    /\ main_pc' = IF NextQuery(results) = queries THEN "augmented_results" ELSE "results"
    /\ UNCHANGED <<queries, solr_ok, augmented_ok, augmented_results, agg_results, reported>>
    /\ UNCHANGED <<phase, rerankVars, keywordVars, reformVars, aggregateVars,
                   generateVars, extractVars>>

\* line 80, one query: solr.query raises RuntimeError (status code not 200)
QuerySolrRaises ==
    /\ main_pc = "results"
    /\ ~solr_ok[NextQuery(results)]
    /\ main_pc' = "aborted"
    /\ UNCHANGED <<queries, solr_ok, augmented_ok, results, augmented_results,
                   agg_results, reported>>
    /\ UNCHANGED <<phase, rerankVars, keywordVars, reformVars, aggregateVars,
                   generateVars, extractVars>>

\* line 81, one query: augmented_solr.query returns the QueryResult
QueryAugmentedSolr ==
    /\ main_pc = "augmented_results"
    /\ augmented_ok[NextQuery(augmented_results)]
    /\ augmented_results' = augmented_results \cup {NextQuery(augmented_results)}
    /\ main_pc' = IF NextQuery(augmented_results) = queries
                  THEN "agg_results" ELSE "augmented_results"
    /\ UNCHANGED <<queries, solr_ok, augmented_ok, results, agg_results, reported>>
    /\ UNCHANGED <<phase, rerankVars, keywordVars, reformVars, aggregateVars,
                   generateVars, extractVars>>

\* line 81, one query: augmented_solr.query raises (a retrieval error, or an
\* error of the model once its retries are used up)
QueryAugmentedSolrRaises ==
    /\ main_pc = "augmented_results"
    /\ ~augmented_ok[NextQuery(augmented_results)]
    /\ main_pc' = "aborted"
    /\ UNCHANGED <<queries, solr_ok, augmented_ok, results, augmented_results,
                   agg_results, reported>>
    /\ UNCHANGED <<phase, rerankVars, keywordVars, reformVars, aggregateVars,
                   generateVars, extractVars>>

\* line 83: aggregate_results for every pair of results
AggregateResults ==
    /\ main_pc = "agg_results"
    /\ agg_results' = results \cap augmented_results
    /\ main_pc' = "report"
    /\ UNCHANGED <<queries, solr_ok, augmented_ok, results, augmented_results, reported>>
    /\ UNCHANGED <<phase, rerankVars, keywordVars, reformVars, aggregateVars,
                   generateVars, extractVars>>

\* lines 85-93: the three evaluations and the lines printed per query
Report ==
    /\ main_pc = "report"
    /\ reported' = agg_results
    /\ main_pc' = "done"
    /\ UNCHANGED <<queries, solr_ok, augmented_ok, results, augmented_results, agg_results>>
    /\ UNCHANGED <<phase, rerankVars, keywordVars, reformVars, aggregateVars,
                   generateVars, extractVars>>

NextMain ==
    \/ QuerySolr
    \/ QuerySolrRaises
    \/ QueryAugmentedSolr
    \/ QueryAugmentedSolrRaises
    \/ AggregateResults
    \/ Report

SpecMain == InitMain /\ [][NextMain]_vars

-----------------------------------------------------------------------------
(* Claims about the batch run, checked under SpecMain                      *)

\* C11: a failure in the pipeline of one query does not abort the batch:
\* when main has ended, every query whose own pipeline does not fail has
\* been processed and reported.
C11_FailureDoesNotAbortBatch ==
    main_pc \in {"done", "aborted"} =>
        \A q \in 1..queries :
            (solr_ok[q] /\ augmented_ok[q]) => q \in reported

-----------------------------------------------------------------------------
(* models.OpenAIModel.generate                                             *)

\* what a request to the API ends in: the response, or an exception
ApiOutcomes == {"ok", "Timeout", "RateLimitError"}

\* the requests one call can come to, and one more
MaxRequests == GenerateRetries + 2

InitGenerate ==
    /\ phase = "init"
    /\ NoRerank
    /\ NoKeywords
    /\ NoReformulation
    /\ NoAggregation
    /\ NoMain
    /\ NoExtraction
    /\ gen_pc = "request"
    /\ gen_budget \in 0..GenerateRetries
    /\ gen_retries = gen_budget
    /\ api_outcomes \in [1..MaxRequests -> ApiOutcomes]
    /\ api_requests = 0
    /\ slept = 0
    /\ gen_result = NoResult

\* mutant: the retry is taken also when no retry is left
may_retry_at_zero(retries) == retries >= 0

\* the test of the except block: if retries > 0
may_retry(retries) == retries > 0

\* the request succeeds: return response['choices'][0]['message']['content']
RequestReturns ==
    /\ gen_pc = "request"
    /\ api_outcomes[api_requests + 1] = "ok"
    /\ api_requests' = api_requests + 1
    /\ gen_result' = Outcome("response", api_requests + 1)
    /\ gen_pc' = "returned"
    /\ UNCHANGED <<gen_budget, gen_retries, api_outcomes, slept>>
    /\ UNCHANGED <<phase, rerankVars, keywordVars, reformVars, aggregateVars,
                   mainVars, extractVars>>

\* the request raises and retries are left: the except block goes to sleep
RequestRaisesRetry ==
    /\ gen_pc = "request"
    /\ api_outcomes[api_requests + 1] # "ok"
    /\ may_retry(gen_retries)
    /\ api_requests' = api_requests + 1
    /\ gen_pc' = "sleep"
    /\ UNCHANGED <<gen_budget, gen_retries, api_outcomes, slept, gen_result>>
    /\ UNCHANGED <<phase, rerankVars, keywordVars, reformVars, aggregateVars,
                   mainVars, extractVars>>

\* the request raises and no retry is left: raise e
RequestRaises ==
    /\ gen_pc = "request"
    /\ api_outcomes[api_requests + 1] # "ok"
    /\ ~may_retry(gen_retries)
    /\ api_requests' = api_requests + 1
    /\ gen_result' = Outcome(api_outcomes[api_requests + 1], api_requests + 1)
    /\ gen_pc' = "raised"
    /\ UNCHANGED <<gen_budget, gen_retries, api_outcomes, slept>>
    /\ UNCHANGED <<phase, rerankVars, keywordVars, reformVars, aggregateVars,
                   mainVars, extractVars>>

\* time.sleep(10); return self.generate(prompt, timeout, retries - 1)
\* The value or the exception of the inner call is that of the outer call:
\* the inner call is made in the except block, outside the try.
SleepAndRetry ==
    /\ gen_pc = "sleep"
    /\ slept' = slept + RetryDelay
    /\ gen_retries' = gen_retries - 1
    /\ gen_pc' = "request"
    /\ UNCHANGED <<gen_budget, api_outcomes, api_requests, gen_result>>
    /\ UNCHANGED <<phase, rerankVars, keywordVars, reformVars, aggregateVars,
                   mainVars, extractVars>>

NextGenerate ==
    \/ RequestReturns
    \/ RequestRaisesRetry
    \/ RequestRaises
    \/ SleepAndRetry

SpecGenerate == InitGenerate /\ [][NextGenerate]_vars

\* A call that has started runs on: the interpreter executes the next
\* statement, the request ends within its timeout, the sleep ends.
FairSpecGenerate == SpecGenerate /\ WF_vars(NextGenerate)

-----------------------------------------------------------------------------
(* Claims about OpenAIModel.generate, checked under FairSpecGenerate       *)

GenerateEnded == gen_pc \in {"returned", "raised"}

\* the requests made so far that raised
Failed(k) == \A a \in 1..k : api_outcomes[a] # "ok"

C14_BoundedRetrySafety ==
    /\ api_requests <= gen_budget + 1
    /\ gen_budget = GenerateRetries => api_requests <= 5
    /\ gen_retries >= 0
    /\ gen_pc = "request" =>
           /\ slept = RetryDelay * api_requests
           /\ gen_retries = gen_budget - api_requests
    /\ gen_pc = "sleep" =>
           /\ slept = RetryDelay * (api_requests - 1)
           /\ gen_retries = gen_budget - (api_requests - 1)
    /\ GenerateEnded => slept = RetryDelay * (api_requests - 1)
    /\ gen_pc = "returned" =>
           /\ api_outcomes[api_requests] = "ok"
           /\ Failed(api_requests - 1)
           /\ gen_result = Outcome("response", api_requests)
    /\ gen_pc = "raised" =>
           /\ api_requests = gen_budget + 1
           /\ Failed(api_requests)
           /\ gen_result = Outcome(api_outcomes[gen_budget + 1], gen_budget + 1)

\* C14: generate makes at most retries + 1 requests (5 with the default
\* retries=4), sleeps the fixed delay of 10 seconds before each retry,
\* returns the response of the first request that succeeds and makes no
\* request after it, raises the error of the last request once no retry is
\* left, and ends under every sequence of successes and failures.
C14_BoundedRetry == [](C14_BoundedRetrySafety) /\ <>GenerateEnded

\* the default budget is used up: five requests, four sleeps, the last
\* request's error raised
C14_Witness ==
    /\ gen_pc = "raised"
    /\ gen_budget = GenerateRetries
    /\ api_requests = GenerateRetries + 1
    /\ slept = GenerateRetries * RetryDelay
    /\ gen_result.kind # api_outcomes[1]

-----------------------------------------------------------------------------
(* models.Model.keywords_by_document                                       *)

Quote == "\""
Newline == <<"\n">>
Ellipsis == <<".", ".", ".">>

\* str.replace(old, new): the occurrences of old from the left, not overlapping
RECURSIVE replace(_, _, _)
replace(s, old, new) ==
    IF Len(s) < Len(old) THEN s
    ELSE IF SubSeq(s, 1, Len(old)) = old
         THEN new \o replace(Drop(s, Len(old)), old, new)
         ELSE <<s[1]>> \o replace(Tail(s), old, new)

startswith(s, c) == Len(s) > 0 /\ s[1] = c
endswith(s, c) == Len(s) > 0 /\ s[Len(s)] = c

\* the brackets added in case the model does not generate them
repair_brackets(resp) ==
    LET opened == IF startswith(resp, "[") THEN resp ELSE <<"[">> \o resp
    IN  IF endswith(opened, "]") THEN opened ELSE opened \o <<"]">>

\* json.loads over the characters [ ] { } : , " space a b . : a value is a
\* string, an array or an object, anything else is a JSONDecodeError.  The
\* decoder is followed character by character.  mode is what the decoder
\* expects, stack the arrays and objects that are open, items the elements
\* of the outermost array, text the characters of the string being read.
Decoded(kind, items) == [ok |-> TRUE, kind |-> kind, items |-> items]
JSONDecodeError == [ok |-> FALSE, kind |-> "", items |-> <<>>]

Item(kind, text) == [kind |-> kind, text |-> text]

Pop(stack) == SubSeq(stack, 1, Len(stack) - 1)

\* the items once a value of this kind is complete below the stack given
ItemsWith(stack, items, kind, text) ==
    IF Len(stack) = 1 /\ stack[1] = "[" THEN Append(items, Item(kind, text)) ELSE items

\* what the decoder expects once a value is complete
ModeAfter(stack, kind) == IF stack = <<>> THEN "end:" \o kind ELSE "after"

RECURSIVE scan(_, _, _, _, _, _)
scan(s, p, mode, stack, items, text) ==
    IF p > Len(s)
    THEN IF mode = "end:str" THEN Decoded("str", items)
         ELSE IF mode = "end:list" THEN Decoded("list", items)
         ELSE IF mode = "end:dict" THEN Decoded("dict", items)
         ELSE JSONDecodeError
    ELSE IF mode = "in_string"
    THEN IF s[p] = Quote
         THEN scan(s, p + 1, ModeAfter(stack, "str"), stack,
                   ItemsWith(stack, items, "str", text), <<>>)
         ELSE scan(s, p + 1, mode, stack, items, Append(text, s[p]))
    ELSE IF mode = "in_key"
    THEN scan(s, p + 1, IF s[p] = Quote THEN "colon" ELSE mode, stack, items, text)
    ELSE IF s[p] = " "
    THEN scan(s, p + 1, mode, stack, items, text)
    ELSE IF mode \in {"value", "value_or_close"} /\ s[p] = Quote
    THEN scan(s, p + 1, "in_string", stack, items, <<>>)
    ELSE IF mode \in {"value", "value_or_close"} /\ s[p] = "["
    THEN scan(s, p + 1, "value_or_close", Append(stack, "["), items, text)
    ELSE IF mode \in {"value", "value_or_close"} /\ s[p] = "{"
    THEN scan(s, p + 1, "key_or_close", Append(stack, "{"), items, text)
    ELSE IF mode \in {"key", "key_or_close"} /\ s[p] = Quote
    THEN scan(s, p + 1, "in_key", stack, items, text)
    ELSE IF mode = "colon" /\ s[p] = ":"
    THEN scan(s, p + 1, "value", stack, items, text)
    ELSE IF mode = "after" /\ s[p] = ","
    THEN scan(s, p + 1, IF stack[Len(stack)] = "[" THEN "value" ELSE "key",
              stack, items, text)
    ELSE IF mode \in {"after", "value_or_close"} /\ s[p] = "]" /\ stack[Len(stack)] = "["
    THEN scan(s, p + 1, ModeAfter(Pop(stack), "list"), Pop(stack),
              ItemsWith(Pop(stack), items, "list", <<>>), text)
    ELSE IF mode \in {"after", "key_or_close"} /\ s[p] = "}" /\ stack[Len(stack)] = "{"
    THEN scan(s, p + 1, ModeAfter(Pop(stack), "dict"), Pop(stack),
              ItemsWith(Pop(stack), items, "dict", <<>>), text)
    ELSE JSONDecodeError

\* json.loads: one value, white space around it, nothing after it
json_loads(s) == scan(s, 1, "value", <<>>, <<>>, <<>>)

\* set(...) of the decoded list: a list or a dict in it is unhashable
set_of(items) ==
    IF \E i \in DOMAIN items : items[i].kind \in {"list", "dict"}
    THEN KeywordSet("TypeError", {})
    ELSE KeywordSet("none", {items[i].text : i \in DOMAIN items})

\* resp as it is decoded: new lines and ellipses removed, brackets added
decoded_text(response) ==
    repair_brackets(replace(replace(response, Newline, <<>>), Ellipsis, <<>>))

\* keywords_by_document where generate returns texts[n], texts[n + 1], ...:
\* the outcome and the calls of generate made up to it
RECURSIVE keywords_by_document(_, _, _)
keywords_by_document(texts, n, retries) ==
    LET decoded == json_loads(decoded_text(texts[n]))
    IN  IF decoded.ok
        THEN [out |-> set_of(decoded.items), generations |-> n]
        ELSE IF retries > 0
             THEN keywords_by_document(texts, n + 1, retries - 1)
             ELSE [out |-> KeywordSet("JSONDecodeError", {}), generations |-> n]

\* the texts generate returns
RespNoOpen == <<Quote, "a", Quote, ",", " ", Quote, "b", Quote, "]">>
RespNoClose == <<"[", Quote, "a", Quote, ",", "\n", Quote, "b", Quote, "\n">>
RespBare == <<Quote, "a", Quote>>
RespEllipsis == <<"[", Quote, "a", Quote, ",", " ", ".", ".", ".", "]">>
RespObject == <<"{", Quote, "a", Quote, ":", " ", "[", Quote, "b", Quote, "]", "}">>
RespProse == <<"a", " ", "b">>
RespSpaced == <<" ", "[", Quote, "a", Quote, "]">>

ResponseTexts ==
    {RespNoOpen, RespNoClose, RespBare, RespEllipsis, RespObject, RespProse, RespSpaced}

InitExtract ==
    /\ phase = "init"
    /\ NoRerank
    /\ NoKeywords
    /\ NoReformulation
    /\ NoAggregation
    /\ NoMain
    /\ NoGenerate
    /\ kbd_retries \in 0..KbdRetries
    /\ responses \in [1..(KbdRetries + 1) -> ResponseTexts]
    /\ kbd_out = NoKeywordSet
    /\ generations = 0
    /\ requested = <<>>

KeywordsByDocument ==
    /\ phase = "init"
    /\ phase' = "extracted"
    /\ LET result == keywords_by_document(responses, 1, kbd_retries)
       IN  /\ kbd_out' = result.out
           /\ generations' = result.generations
    /\ UNCHANGED <<responses, kbd_retries, requested>>
    /\ UNCHANGED <<rerankVars, keywordVars, reformVars, aggregateVars,
                   mainVars, generateVars>>

NextExtract == KeywordsByDocument

SpecExtract == InitExtract /\ [][NextExtract]_vars

-----------------------------------------------------------------------------
(* Claims about keywords_by_document, checked under SpecExtract            *)

\* the generations whose response can be decoded once it is repaired
Decodable(limit) ==
    {k \in 1..limit : json_loads(decoded_text(responses[k])).ok}

FirstOf(S) == CHOOSE k \in S : \A m \in S : k <= m

\* the strings of the decoded list of generation k
StringsOf(k) ==
    LET items == json_loads(decoded_text(responses[k])).items
    IN  {items[i].text : i \in DOMAIN items}

\* C15: keywords_by_document adds a missing leading or trailing bracket,
\* asks for a new generation after each response that still cannot be
\* decoded, at most retries times (retries + 1 generations), returns the
\* keyword set of the first response that can be decoded and raises the
\* decode error when none can.
C15_RetriesUndecodable ==
    phase = "extracted" =>
        LET limit == kbd_retries + 1
        IN  /\ generations <= limit
            /\ Decodable(limit) # {} =>
                   /\ generations = FirstOf(Decodable(limit))
                   /\ kbd_out = KeywordSet("none", StringsOf(generations))
            /\ Decodable(limit) = {} =>
                   /\ generations = limit
                   /\ kbd_out = KeywordSet("JSONDecodeError", {})

-----------------------------------------------------------------------------
(* AugmentedSolr.reformulate_query with the calls of the model             *)

\* the calls of generate one reformulation can come to
MaxGenerations == (KbdRetries + 1) * 2

\* the texts generate returns, call after call: the two that are arrays of
\* strings or not decodable, in every order, and an object among texts that
\* are not decodable
ResponseStreams ==
    [1..MaxGenerations -> {RespNoOpen, RespProse}]
        \cup {[n \in 1..MaxGenerations |-> IF n = k THEN RespObject ELSE RespProse] :
                k \in 1..MaxGenerations}

\* mutant: every retrieved document is sent to the model
every_doc(result, n_rel) == result

\* the documents of the loop: original_result[0:pseudo_rel_docs]
pseudo_relevant(result, n_rel) == Take(result, n_rel)

\* the loop over the pseudo-relevant documents from docs[i] on, where the
\* next call of generate returns texts[n]: the exception that ends it, the
\* keywords by document, the calls of keywords_by_document and, for every
\* call of generate, the document it is made for
RECURSIVE gather_by_model(_, _, _, _, _)
gather_by_model(texts, docs, i, n, st) ==
    IF i > Len(docs) THEN st
    ELSE LET result == keywords_by_document(texts, n, KbdRetries)
             made == [k \in 1..(result.generations - n + 1) |-> docs[i]]
             next == [st EXCEPT !.requested = @ \o made,
                                !.oracle_calls = @ + 1]
         IN  IF result.out.raised # "none"
             THEN [next EXCEPT !.raised = result.out.raised]
             ELSE gather_by_model(texts, docs, i + 1, result.generations + 1,
                      [next EXCEPT !.keywords[docs[i]] = result.out.keywords])

InitOracleCalls ==
    /\ phase = "init"
    /\ NoRerank
    /\ query = [query_id |-> "1", query_text |-> Bank]
    /\ rel_keywords = {}
    /\ non_rel_words = {}
    /\ new_query = "none"
    /\ original_result \in DistinctSeqs(DocNos, MaxResult)
    /\ expand \in BOOLEAN
    /\ term_reweighting \in BOOLEAN
    /\ pseudo_rel_docs \in PseudoRelChoices
    /\ pseudo_non_rel_docs = 3
    /\ oracle = [d \in DocNos |-> {}]
    /\ raised = "none"
    /\ oracle_calls = 0
    /\ NoAggregation
    /\ NoMain
    /\ NoGenerate
    /\ responses \in ResponseStreams
    /\ kbd_retries = KbdRetries
    /\ kbd_out = NoKeywordSet
    /\ generations = 0
    /\ requested = <<>>

\* reformulate_query: neither flag is set
ReformulateNothing ==
    /\ phase = "init"
    /\ ~expand /\ ~term_reweighting
    /\ phase' = "reformulated"
    /\ raised' = "ValueError"
    /\ UNCHANGED <<original_result, expand, term_reweighting, pseudo_rel_docs,
                   pseudo_non_rel_docs, oracle, oracle_calls>>
    /\ UNCHANGED <<rerankVars, keywordVars, aggregateVars, oracleVars>>

\* reformulate_query: keywords_by_document raises for a document
ReformulateRaises ==
    /\ phase = "init"
    /\ expand \/ term_reweighting
    /\ LET st == gather_by_model(responses, pseudo_relevant(original_result, pseudo_rel_docs), 1, 1,
                     [raised |-> "none", keywords |-> oracle, oracle_calls |-> 0,
                      requested |-> <<>>])
       IN  /\ st.raised # "none"
           /\ raised' = st.raised
           /\ oracle' = st.keywords
           /\ oracle_calls' = st.oracle_calls
           /\ requested' = st.requested
           /\ generations' = Len(st.requested)
    /\ phase' = "reformulated"
    /\ UNCHANGED <<original_result, expand, term_reweighting, pseudo_rel_docs,
                   pseudo_non_rel_docs>>
    /\ UNCHANGED <<responses, kbd_retries, kbd_out>>
    /\ UNCHANGED <<rerankVars, keywordVars, aggregateVars, mainVars, generateVars>>

\* reformulate_query: every call of keywords_by_document returns
ReformulateByModel ==
    /\ phase = "init"
    /\ expand \/ term_reweighting
    /\ LET st == gather_by_model(responses, pseudo_relevant(original_result, pseudo_rel_docs), 1, 1,
                     [raised |-> "none", keywords |-> oracle, oracle_calls |-> 0,
                      requested |-> <<>>])
       IN  /\ st.raised = "none"
           /\ \E out \in reformulate_query(query, original_result, expand,
                             term_reweighting, pseudo_rel_docs,
                             pseudo_non_rel_docs, st.keywords) :
                 new_query' = out.query
           /\ oracle' = st.keywords
           /\ oracle_calls' = st.oracle_calls
           /\ requested' = st.requested
           /\ generations' = Len(st.requested)
    /\ phase' = "reformulated"
    /\ UNCHANGED <<query, rel_keywords, non_rel_words>>
    /\ UNCHANGED <<original_result, expand, term_reweighting, pseudo_rel_docs,
                   pseudo_non_rel_docs, raised>>
    /\ UNCHANGED <<responses, kbd_retries, kbd_out>>
    /\ UNCHANGED <<rerankVars, aggregateVars, mainVars, generateVars>>

NextOracleCalls ==
    \/ ReformulateNothing
    \/ ReformulateRaises
    \/ ReformulateByModel

SpecOracleCalls == InitOracleCalls /\ [][NextOracleCalls]_vars

-----------------------------------------------------------------------------
(* Claims about the calls of the model, checked under SpecOracleCalls      *)

\* the calls of generate made for document d
RequestsFor(d) == Cardinality({k \in DOMAIN requested : requested[k] = d})

TopDocs == Take(original_result, pseudo_rel_docs)

\* the rank of document d among the top documents
RankOf(d) == CHOOSE i \in DOMAIN TopDocs : TopDocs[i] = d

\* C16 as stated: a reformulation makes at most pseudo_rel_docs calls of the
\* model, one for each of the top pseudo_rel_docs documents and none for any
\* other document.
C16_AtMostOneCallPerDoc ==
    phase = "reformulated" =>
        /\ generations <= pseudo_rel_docs
        /\ \A d \in DocNos : RequestsFor(d) <= 1
        /\ Range(requested) \subseteq Range(TopDocs)

\* C16 amended: a reformulation calls keywords_by_document at most once for
\* each of the top pseudo_rel_docs documents (fewer if the result is
\* shorter), in rank order, and for no other document; each of these calls
\* makes between 1 and retries + 1 = 4 calls of the model, so a
\* reformulation makes at most 4 * min(pseudo_rel_docs, len(result)) calls
\* of the model.  A call that raises ends the reformulation, and no call is
\* made when neither flag is set.
C16_CallsBoundedByRetries ==
    phase = "reformulated" =>
        /\ generations = Len(requested)
        /\ oracle_calls <= Min(pseudo_rel_docs, Len(original_result))
        /\ generations <= (KbdRetries + 1) * Min(pseudo_rel_docs, Len(original_result))
        /\ Range(requested) \subseteq Range(TopDocs)
        /\ \A d \in DocNos : RequestsFor(d) <= KbdRetries + 1
        /\ \A k \in 1..(Len(requested) - 1) :
               RankOf(requested[k]) <= RankOf(requested[k + 1])
        /\ raised = "none" =>
               /\ oracle_calls = Len(TopDocs)
               /\ \A d \in Range(TopDocs) : RequestsFor(d) >= 1
        /\ raised = "ValueError" => generations = 0 /\ oracle_calls = 0
        /\ raised \in {"JSONDecodeError", "TypeError"} =>
               /\ oracle_calls >= 1
               /\ \A d \in Range(Drop(TopDocs, oracle_calls)) : RequestsFor(d) = 0
        /\ raised = "JSONDecodeError" =>
               RequestsFor(TopDocs[oracle_calls]) = KbdRetries + 1

\* a result longer than pseudo_rel_docs whose top document takes every
\* retry: four calls of the model for one document, none for the other
C16_Witness ==
    /\ phase = "reformulated"
    /\ raised = "none"
    /\ Len(original_result) > pseudo_rel_docs
    /\ generations = KbdRetries + 1
    /\ generations > pseudo_rel_docs

-----------------------------------------------------------------------------
(* Claims about reweight_query_terms and expand_query, under SpecKeywords  *)

\* C5: every non-empty term of the relevant keyword set that occurs in the
\* query text, also as its last word, gets exactly one boost suffix; in
\* particular "cat dog" with relevant set {"dog"} gives a text that holds
\* "dog^2" exactly once and leaves "cat" as it was.
C5_BoostEveryOccurringTerm ==
    phase = "reweighted" =>
        /\ \A kw \in rel_keywords :
              (Len(kw) > 0 /\ IsSubstr(kw, query.query_text))
                  => Count(kw \o BoostSuffix, new_query.query_text) = 1
        /\ (query.query_text = CatDog /\ rel_keywords = {Dog} /\ non_rel_words = {})
              => /\ Count(Dog \o BoostSuffix, new_query.query_text) = 1
                 /\ Take(new_query.query_text, Len(Cat) + 1) = Cat \o Space

\* the part of the expanded text behind the original query text
Appended == Drop(new_query.query_text, Len(query.query_text))

\* C6: the expanded text contains every keyword of K that is not a
\* substring of the query text, nothing else is appended (no keyword that
\* already is a substring of the query text), and the text is unchanged
\* when K is empty.
C6_ExpandContainsExactlyNew ==
    phase = "expanded" =>
        LET new == {kw \in rel_keywords : ~IsSubstr(kw, query.query_text)}
        IN  /\ \A kw \in new : IsSubstr(kw, new_query.query_text)
            /\ Take(new_query.query_text, Len(query.query_text)) = query.query_text
            /\ Range(split(Appended)) \ {Empty} = new
            /\ Count(Space, Appended) <= Cardinality(new)
            /\ rel_keywords = {} => new_query.query_text = query.query_text
            /\ new_query.query_id = query.query_id

C6_Witness ==
    /\ phase = "expanded"
    /\ query.query_text = BankRate
    /\ rel_keywords = {Rate, Dog}
    /\ IsSubstr(Dog, new_query.query_text)
    /\ Count(Rate, new_query.query_text) = 1

-----------------------------------------------------------------------------
(* AugmentedSolr.relevance_feedback                                        *)

\* the documents of the window the oracle judges relevant, in rank order
relevant_docs(result, top_n, judge) ==
    SelectSeq(Take(result, top_n), LAMBDA d : judge[d])

\* the documents of the window the oracle judges non-relevant, in rank order
non_relevant_docs(result, top_n, judge) ==
    SelectSeq(Take(result, top_n), LAMBDA d : ~judge[d])

\* mutant: the non-relevant documents are filtered out and never added back
relevance_feedback_dropping(result, top_n, judge) ==
    relevant_docs(result, top_n, judge) \o Drop(result, top_n)

\* mutant: the non-relevant documents are put right behind the relevant ones
relevance_feedback_window_first(result, top_n, judge) ==
    relevant_docs(result, top_n, judge)
        \o non_relevant_docs(result, top_n, judge)
        \o Drop(result, top_n)

Reverse(s) == [i \in 1..Len(s) |-> s[Len(s) + 1 - i]]

\* mutant: non_relevant_docs.pop() takes from the back instead of the front
relevance_feedback_pop_last(result, top_n, judge) ==
    relevant_docs(result, top_n, judge)
        \o Drop(result, top_n)
        \o Reverse(non_relevant_docs(result, top_n, judge))

\* the document list of the QueryResult that relevance_feedback returns
relevance_feedback(result, top_n, judge) ==
    relevant_docs(result, top_n, judge)
        \o Drop(result, top_n)
        \o non_relevant_docs(result, top_n, judge)

\* doc.relevant = is_relevant for every document of the window
judged(result, top_n, judge, rel) ==
    [d \in DocNos |->
        IF d \in Range(Take(result, top_n))
        THEN (IF judge[d] THEN "True" ELSE "False")
        ELSE rel[d]]

\* Doc.score of the document at rank i of a Solr response of n documents,
\* which come sorted by score, descending: n, n-1, ..., 1
solr_score(n, i) == n + 1 - i

\* Doc.relevant as a number: True is 1, False is 0, the default is -inf
relevant_value(r) ==
    CASE r = "unjudged" -> NegInf
      [] r = "True" -> Num(1)
      [] r = "False" -> Num(0)

\* sum(values): -inf plus a number is -inf
RECURSIVE sum(_)
sum(values) ==
    IF Len(values) = 0 THEN Num(0)
    ELSE LET rest == sum(Tail(values))
         IN  IF Head(values).neg_inf \/ rest.neg_inf THEN NegInf
             ELSE Num(Head(values).value + rest.value)

\* mutant: the retrieval score stands in for a relevance that is unknown
cg_scores_for_unjudged(docs, rel, n) ==
    sum([i \in DOMAIN docs |->
            IF rel[docs[i]] = "unjudged"
            THEN Num(solr_score(n, CHOOSE k \in DOMAIN query_result : query_result[k] = docs[i]))
            ELSE relevant_value(rel[docs[i]])])

\* QueryResult.cg: sum([doc.relevant for doc in self.docs]); n is not read
cg_of(docs, rel, n) == sum([i \in DOMAIN docs |-> relevant_value(rel[docs[i]])])

InitRerank ==
    /\ phase = "init"
    /\ query_result \in DistinctSeqs(DocNos, MaxDocs)
    /\ feedback_on_top_n \in 0..MaxWindow
    /\ judgment \in [DocNos -> BOOLEAN]
    /\ relevant = [d \in DocNos |-> "unjudged"]
    /\ reranked = <<>>
    /\ reranked_again = <<>>
    /\ cg = Num(0)
    /\ NoKeywords
    /\ NoReformulation
    /\ NoAggregation
    /\ NoOracle

RelevanceFeedback ==
    /\ phase = "init"
    /\ phase' = "reranked"
    /\ reranked' = relevance_feedback(query_result, feedback_on_top_n, judgment)
    /\ relevant' = judged(query_result, feedback_on_top_n, judgment, relevant)
    /\ UNCHANGED <<query_result, feedback_on_top_n, judgment, reranked_again, cg>>
    /\ UNCHANGED <<keywordVars, reformVars, aggregateVars, oracleVars>>

RelevanceFeedbackAgain ==
    /\ phase = "reranked"
    /\ phase' = "reranked_again"
    /\ reranked_again' = relevance_feedback(reranked, feedback_on_top_n, judgment)
    /\ relevant' = judged(reranked, feedback_on_top_n, judgment, relevant)
    /\ UNCHANGED <<query_result, feedback_on_top_n, judgment, reranked, cg>>
    /\ UNCHANGED <<keywordVars, reformVars, aggregateVars, oracleVars>>

\* QueryResult.cg read on the result set as retrieved
CumulativeGainRetrieved ==
    /\ phase = "init"
    /\ phase' = "cg_retrieved"
    /\ cg' = cg_of(query_result, relevant, Len(query_result))
    /\ UNCHANGED <<query_result, feedback_on_top_n, judgment, relevant, reranked,
                   reranked_again>>
    /\ UNCHANGED <<keywordVars, reformVars, aggregateVars, oracleVars>>

\* QueryResult.cg read on the result set relevance_feedback returned
CumulativeGainReranked ==
    /\ phase = "reranked"
    /\ phase' = "cg_reranked"
    /\ cg' = cg_of(reranked, relevant, Len(query_result))
    /\ UNCHANGED <<query_result, feedback_on_top_n, judgment, relevant, reranked,
                   reranked_again>>
    /\ UNCHANGED <<keywordVars, reformVars, aggregateVars, oracleVars>>

NextRerank ==
    \/ RelevanceFeedback
    \/ RelevanceFeedbackAgain
    \/ CumulativeGainRetrieved
    \/ CumulativeGainReranked

SpecRerank == InitRerank /\ [][NextRerank]_vars

-----------------------------------------------------------------------------
(* Claims about relevance_feedback, checked under SpecRerank               *)

\* rank of document d in result set s
Pos(s, d) == CHOOSE i \in DOMAIN s : s[i] = d

\* 0: judged relevant in the window, 1: beyond the window, 2: judged
\* non-relevant in the window
Class(s, d) ==
    IF Pos(s, d) > feedback_on_top_n THEN 1
    ELSE IF judgment[d] THEN 0 ELSE 2

\* the result set whose cg was read
CgDocs == IF phase = "cg_retrieved" THEN query_result ELSE reranked

C1_LengthPreserving ==
    phase = "reranked" =>
        /\ Len(reranked) = Len(query_result)
        /\ \A d \in Range(query_result) :
              Cardinality({i \in DOMAIN reranked : reranked[i] = d}) = 1

C1_Witness ==
    /\ phase = "reranked"
    /\ Len(query_result) = MaxDocs
    /\ feedback_on_top_n > Len(query_result)
    /\ \E d \in Range(query_result) : ~judgment[d]
    /\ \E d \in Range(query_result) : judgment[d]

\* C2: in the returned order the window documents judged relevant come
\* first, then the documents beyond the window, then the window documents
\* judged non-relevant, and documents of the same group keep their
\* original relative order.
C2_OutputOrder ==
    phase = "reranked" =>
        /\ Range(reranked) = Range(query_result)
        /\ \A i, j \in DOMAIN reranked :
              i < j =>
                /\ Class(query_result, reranked[i]) <= Class(query_result, reranked[j])
                /\ Class(query_result, reranked[i]) = Class(query_result, reranked[j])
                      => Pos(query_result, reranked[i]) < Pos(query_result, reranked[j])

C2_Witness ==
    /\ phase = "reranked"
    /\ Len(query_result) = MaxDocs
    /\ feedback_on_top_n = 2
    /\ ~judgment[query_result[1]]
    /\ judgment[query_result[2]]
    /\ reranked[Len(reranked)] = query_result[1]

\* C3 as stated: a second pass over the reranked result, with the same
\* window and the same oracle, returns the same order.
C3_Idempotent ==
    phase = "reranked_again" => reranked_again = reranked

\* C3 amended: the second pass returns the same order whenever the window
\* covers the whole result set, or every document in the first W positions
\* of the first pass's output is judged relevant.
C3_IdempotentAmended ==
    (/\ phase = "reranked_again"
     /\ \/ feedback_on_top_n >= Len(query_result)
        \/ \A i \in DOMAIN reranked :
              i <= feedback_on_top_n => judgment[reranked[i]])
        => reranked_again = reranked

C3_Witness ==
    /\ phase = "reranked_again"
    /\ Len(query_result) = MaxDocs
    /\ feedback_on_top_n >= Len(query_result)
    /\ reranked # query_result
    /\ Cardinality({d \in Range(query_result) : ~judgment[d]}) >= 2
    /\ reranked_again = reranked

====
